---- MODULE Spec2Model ----
(***************************************************************************)
(* Model of streamlit_app.py, the dexdogs Carbon Fidelity Engine.          *)
(*                                                                         *)
(* The script is run top to bottom on every interaction: it sets its       *)
(* globals, reads the sidebar widgets, optionally scans the uploaded EPD,  *)
(* and either renders the dashboard (score, rating, price) or the idle     *)
(* page.  Each of those sections is one action; Rerun starts the next run. *)
(*                                                                         *)
(* Numbers.  score_freq = freq_input / 5 is a float with one of the        *)
(* fractional parts 0, .2, .4, .6, .8, so every score is held here as an   *)
(* integer count of fifths of a point (Pts(30) is the 30 of the source).   *)
(* The float the script computes differs from the exact fifth by far less  *)
(* than the .2 that separates it from the integers it is compared with, so *)
(* every comparison of the script has the outcome computed here.  Prices   *)
(* are held in cents (18.50 is 1850).                                      *)
(***************************************************************************)
EXTENDS Integers, Sequences, FiniteSets, TLC

\* Most pages an uploaded document has in the model.
MaxPages == 2

\* freq_input / 5: the divisor, and so the number of score units per point.
Scale == 5

\* st.slider("Data Granularity (Freq)", 0, 100, 20): the largest value.
SliderMax == 100

Pts(n) == n * Scale

Min(a, b) == IF a <= b THEN a ELSE b
Max(a, b) == IF a >= b THEN a ELSE b

-----------------------------------------------------------------------------
(* Sidebar widgets *)

InputModes == {"Manual Entry", "AI EPD Analysis"}

ProjectOptions ==
    {"Biochar", "Afforestation (ARR)", "Renewable Energy", "Concrete/Construction"}

SourceOptions ==
    {"A. Direct Sensor (IoT) / Remote Sensing",
     "B. Metered / Hybrid Data",
     "C. Engineering Estimates / Secondary"}

AuditOptions ==
    {"L3: Reasonable Assurance (ISO 14064-3)",
     "L2: Limited Assurance / Self-Declared",
     "L1: Unverified"}

FreqValues == 0..SliderMax

\* The options that have the tested word as a substring.
HasSensor == {"A. Direct Sensor (IoT) / Remote Sensing"}
HasMetered == {"B. Metered / Hybrid Data"}
HasReasonable == {"L3: Reasonable Assurance (ISO 14064-3)"}
HasLimited == {"L2: Limited Assurance / Self-Declared"}

\* Variant: the Sensor and Metered contributions exchanged.
ManualSourceSwapped(source_input) ==
    IF source_input \in HasSensor
      THEN [score |-> Pts(10), label |-> "A. Direct Sensor (Primary)"]
      ELSE IF source_input \in HasMetered
        THEN [score |-> Pts(40), label |-> "B. Metered (Hybrid)"]
        ELSE [score |-> Pts(-10), label |-> "C. Estimates (Secondary)"]

\* if "Sensor" in source_input: ... elif "Metered" in source_input: ... else: ...
ManualSource(source_input) ==
    IF source_input \in HasSensor
      THEN [score |-> Pts(40), label |-> "A. Direct Sensor (Primary)"]
      ELSE IF source_input \in HasMetered
        THEN [score |-> Pts(10), label |-> "B. Metered (Hybrid)"]
        ELSE [score |-> Pts(-10), label |-> "C. Estimates (Secondary)"]

\* Variant: Unverified costs 15 points instead of 20.
ManualAuditUnverified15(audit_input) ==
    IF audit_input \in HasReasonable
      THEN [score |-> Pts(30), label |-> "L3: Reasonable Assurance"]
      ELSE IF audit_input \in HasLimited
        THEN [score |-> Pts(15), label |-> "L2: Limited Assurance"]
        ELSE [score |-> Pts(-15), label |-> "L1: Unverified"]

\* if "Reasonable" in audit_input: ... elif "Limited" in audit_input: ... else: ...
ManualAudit(audit_input) ==
    IF audit_input \in HasReasonable
      THEN [score |-> Pts(30), label |-> "L3: Reasonable Assurance"]
      ELSE IF audit_input \in HasLimited
        THEN [score |-> Pts(15), label |-> "L2: Limited Assurance"]
        ELSE [score |-> Pts(-20), label |-> "L1: Unverified"]

\* Variant: the slider value taken as the contribution, undivided.
ManualFreqUndivided(freq_input) == Pts(freq_input)

\* score_freq = freq_input / 5: freq_input points, divided by 5.
ManualFreq(freq_input) == Pts(freq_input) \div Scale

-----------------------------------------------------------------------------
(* The uploaded document and analyze_epd *)

VerifiedWords == {"third party verified", "external verification"}
IsoWords == {"iso 14040", "iso 14044"}
PrimaryWords == {"primary data", "site-specific"}
SecondaryWords == {"secondary data", "database"}
ConcreteWords == {"concrete", "cement"}
GlassWords == {"glass"}
SteelWords == {"steel"}
OtherWords == {"lorem ipsum"}

Phrases ==
    VerifiedWords \cup IsoWords \cup PrimaryWords \cup SecondaryWords
      \cup ConcreteWords \cup GlassWords \cup SteelWords \cup OtherWords

\* What extract_text() gives for a page: a phrase, as printed (cap: in capitals).
PageTexts == [w : Phrases, cap : BOOLEAN]

Documents == UNION {[1..n -> PageTexts] : n \in 0..MaxPages}

\* uploaded_file: None, or a PDF with its pages.
NoFile == [present |-> FALSE, pages |-> <<>>]
Uploads == {NoFile} \cup {[present |-> TRUE, pages |-> d] : d \in Documents}

\* str.lower()
Lower(t) == [w |-> t.w, cap |-> FALSE]

\* Variant: the page texts concatenated without lower().
RECURSIVE ReadTextAsPrinted(_)
ReadTextAsPrinted(pages) ==
    IF pages = <<>> THEN <<>>
    ELSE Append(ReadTextAsPrinted(SubSeq(pages, 1, Len(pages) - 1)),
                pages[Len(pages)])

\* text = ""; for page in reader.pages: text += page.extract_text().lower()
RECURSIVE ReadText(_)
ReadText(pages) ==
    IF pages = <<>> THEN <<>>
    ELSE Append(ReadText(SubSeq(pages, 1, Len(pages) - 1)),
                Lower(pages[Len(pages)]))

\* "<literal>" in text: the literal is in lower case.
Contains(text, word) == \E i \in 1..Len(text) : text[i] = [w |-> word, cap |-> FALSE]

ContainsAny(text, words) == \E word \in words : Contains(text, word)

\* 1. DETECT PROJECT
DetectProject(text) ==
    IF ContainsAny(text, ConcreteWords) THEN "Concrete / Cement"
    ELSE IF ContainsAny(text, GlassWords) THEN "Glass Manufacturing"
    ELSE IF ContainsAny(text, SteelWords) THEN "Metals / Steel"
    ELSE "General Construction"

\* Variant: the ISO rule tested before the third-party rule.
DetectVerificationIsoFirst(text) ==
    IF ContainsAny(text, IsoWords)
      THEN [a_lbl |-> "L2: Self-Declared (ISO Compliant)", a_scr |-> Pts(15)]
    ELSE IF ContainsAny(text, VerifiedWords)
      THEN [a_lbl |-> "L3: Third-Party Verified (ISO 14025)", a_scr |-> Pts(30)]
    ELSE [a_lbl |-> "L1: Unverified / Internal Estimate", a_scr |-> Pts(-20)]

\* 2. DETECT VERIFICATION
DetectVerification(text) ==
    IF ContainsAny(text, VerifiedWords)
      THEN [a_lbl |-> "L3: Third-Party Verified (ISO 14025)", a_scr |-> Pts(30)]
    ELSE IF ContainsAny(text, IsoWords)
      THEN [a_lbl |-> "L2: Self-Declared (ISO Compliant)", a_scr |-> Pts(15)]
    ELSE [a_lbl |-> "L1: Unverified / Internal Estimate", a_scr |-> Pts(-20)]

\* Variant: no keyword falls through to Industry Average.
DetectSourceWorstDefault(text) ==
    IF ContainsAny(text, PrimaryWords)
      THEN [s_lbl |-> "A. Direct Facility Data (Primary)", s_scr |-> Pts(40)]
    ELSE [s_lbl |-> "C. Industry Average (Secondary)", s_scr |-> Pts(-10)]

\* 3. DETECT SOURCE
DetectSource(text) ==
    IF ContainsAny(text, PrimaryWords)
      THEN [s_lbl |-> "A. Direct Facility Data (Primary)", s_scr |-> Pts(40)]
    ELSE IF ContainsAny(text, SecondaryWords)
      THEN [s_lbl |-> "C. Industry Average (Secondary)", s_scr |-> Pts(-10)]
    ELSE [s_lbl |-> "B. Hybrid / Mixed Data", s_scr |-> Pts(10)]

\* return p_type, a_lbl, a_scr, s_lbl, s_scr
analyze_epd(file) ==
    LET text == ReadText(file.pages)
        v == DetectVerification(text)
        s == DetectSource(text)
    IN  [p_type |-> DetectProject(text),
         a_lbl |-> v.a_lbl, a_scr |-> v.a_scr,
         s_lbl |-> s.s_lbl, s_scr |-> s.s_scr]

\* score_freq = 5 # EPDs are usually static, so low frequency score
EpdFreq == Pts(5)

-----------------------------------------------------------------------------
(* Score and rating *)

\* base_score = 40
BaseScore == Pts(40)

\* Variant: no upper clamp.
FidelityScoreUnclamped(base, audit, source, freq) ==
    Max(base + audit + source + freq, 0)

\* min(max(base_score + score_audit + score_source + score_freq, 0), 100)
FidelityScore(base, audit, source, freq) ==
    Min(Max(base + audit + source + freq, 0), Pts(100))

\* Variant: the AAA and A bands exchanged.
RateSwapped(score) ==
    IF score >= Pts(80) THEN [rating |-> "A", color |-> "#2ecc71", price |-> 1420]
    ELSE IF score >= Pts(60) THEN [rating |-> "AAA", color |-> "#00d4ff", price |-> 1850]
    ELSE IF score >= Pts(40) THEN [rating |-> "BBB", color |-> "#f1c40f", price |-> 900]
    ELSE [rating |-> "D", color |-> "#c0392b", price |-> 250]

\* Variant: thresholds tested with > instead of >=.
RateStrict(score) ==
    IF score > Pts(80) THEN [rating |-> "AAA", color |-> "#00d4ff", price |-> 1850]
    ELSE IF score > Pts(60) THEN [rating |-> "A", color |-> "#2ecc71", price |-> 1420]
    ELSE IF score > Pts(40) THEN [rating |-> "BBB", color |-> "#f1c40f", price |-> 900]
    ELSE [rating |-> "D", color |-> "#c0392b", price |-> 250]

\* DETERMINE RATING
Rate(score) ==
    IF score >= Pts(80) THEN [rating |-> "AAA", color |-> "#00d4ff", price |-> 1850]
    ELSE IF score >= Pts(60) THEN [rating |-> "A", color |-> "#2ecc71", price |-> 1420]
    ELSE IF score >= Pts(40) THEN [rating |-> "BBB", color |-> "#f1c40f", price |-> 900]
    ELSE [rating |-> "D", color |-> "#c0392b", price |-> 250]

-----------------------------------------------------------------------------
(* State *)

VARIABLES
    pc,             \* the section of the script that runs next
    input_mode,     \* st.radio
    source_input,   \* st.selectbox, Manual Entry only
    audit_input,    \* st.selectbox, Manual Entry only
    freq_input,     \* st.slider, Manual Entry only
    uploaded_file,  \* st.file_uploader, AI EPD Analysis only
    score_audit, score_source, score_freq,
    project_type, audit_label, source_label,
    is_manual, run_dashboard,
    base_score, fidelity_score, rating, color, price,
    bound,          \* the names above that the run has bound so far
    view            \* what the page shows: "dashboard", "idle" or nothing yet

widgets == <<input_mode, source_input, audit_input, freq_input, uploaded_file>>
globals == <<score_audit, score_source, score_freq, project_type, audit_label,
             source_label, is_manual>>
results == <<base_score, fidelity_score, rating, color, price>>
vars == <<pc, widgets, globals, run_dashboard, results, bound, view>>

\* The state at line 33: the globals of lines 25-31 are set, nothing else is bound.
\* A name that is not in bound holds a placeholder that nothing reads.
TopOfScript ==
    /\ pc = "sidebar"
    /\ input_mode = "" /\ source_input = "" /\ audit_input = "" /\ freq_input = 0
    /\ uploaded_file = NoFile
    /\ score_audit = 0 /\ score_source = 0 /\ score_freq = 0
    /\ project_type = "N/A" /\ audit_label = "N/A" /\ source_label = "N/A"
    /\ is_manual = FALSE
    /\ run_dashboard = FALSE
    /\ base_score = 0 /\ fidelity_score = 0 /\ rating = "" /\ color = "" /\ price = 0
    /\ bound = {}
    /\ view = ""

Init == TopOfScript

\* with st.sidebar: ... if input_mode == "Manual Entry":
SidebarManual ==
    /\ pc = "sidebar"
    /\ \E p \in ProjectOptions, s \in SourceOptions, a \in AuditOptions, f \in FreqValues :
         /\ input_mode' = "Manual Entry"
         /\ is_manual' = TRUE
         /\ project_type' = p
         /\ source_input' = s
         /\ score_source' = ManualSource(s).score
         /\ source_label' = ManualSource(s).label
         /\ audit_input' = a
         /\ score_audit' = ManualAudit(a).score
         /\ audit_label' = ManualAudit(a).label
         /\ freq_input' = f
         /\ score_freq' = ManualFreq(f)
    /\ bound' = bound \cup {"source_input", "audit_input", "freq_input"}
    /\ pc' = "main"
    /\ UNCHANGED <<uploaded_file, run_dashboard, results, view>>

\* with st.sidebar: ... else: (AI EPD ANALYSIS MODE)
SidebarEPD ==
    /\ pc = "sidebar"
    /\ \E file \in Uploads :
         /\ input_mode' = "AI EPD Analysis"
         /\ is_manual' = FALSE
         /\ uploaded_file' = file
    /\ bound' = bound \cup {"uploaded_file"}
    /\ pc' = "main"
    /\ UNCHANGED <<source_input, audit_input, freq_input, score_audit, score_source,
                   score_freq, project_type, audit_label, source_label,
                   run_dashboard, results, view>>

\* Variant: the dashboard runs whatever the mode and the upload.
MainExecutionAlways ==
    /\ pc = "main"
    /\ run_dashboard' = TRUE
    /\ pc' = "render"
    /\ UNCHANGED <<widgets, globals, results, bound, view>>

\* MAIN EXECUTION: run_dashboard = False; if ... elif ...
MainExecution ==
    /\ pc = "main"
    /\ IF input_mode = "AI EPD Analysis" /\ uploaded_file.present
         THEN LET r == analyze_epd(uploaded_file)
              IN  /\ project_type' = r.p_type
                  /\ audit_label' = r.a_lbl
                  /\ score_audit' = r.a_scr
                  /\ source_label' = r.s_lbl
                  /\ score_source' = r.s_scr
                  /\ score_freq' = EpdFreq
                  /\ run_dashboard' = TRUE
         ELSE /\ run_dashboard' = (input_mode = "Manual Entry")
              /\ UNCHANGED <<score_audit, score_source, score_freq, project_type,
                             audit_label, source_label>>
    /\ pc' = "render"
    /\ UNCHANGED <<widgets, is_manual, results, bound, view>>

\* DASHBOARD RENDER: if run_dashboard:
DashboardRender ==
    /\ pc = "render"
    /\ run_dashboard
    /\ base_score' = BaseScore
    /\ fidelity_score' = FidelityScore(BaseScore, score_audit, score_source, score_freq)
    /\ rating' = Rate(fidelity_score').rating
    /\ color' = Rate(fidelity_score').color
    /\ price' = Rate(fidelity_score').price
    /\ bound' = bound \cup {"base_score", "fidelity_score", "rating", "color", "price"}
    /\ view' = "dashboard"
    /\ pc' = "done"
    /\ UNCHANGED <<widgets, globals, run_dashboard>>

\* else: IDLE STATE
IdleState ==
    /\ pc = "render"
    /\ ~run_dashboard
    /\ view' = "idle"
    /\ pc' = "done"
    /\ UNCHANGED <<widgets, globals, run_dashboard, results, bound>>

\* Any interaction runs the script again from the top, in a fresh namespace.
Rerun ==
    /\ pc = "done"
    /\ pc' = "sidebar"
    /\ input_mode' = "" /\ source_input' = "" /\ audit_input' = "" /\ freq_input' = 0
    /\ uploaded_file' = NoFile
    /\ score_audit' = 0 /\ score_source' = 0 /\ score_freq' = 0
    /\ project_type' = "N/A" /\ audit_label' = "N/A" /\ source_label' = "N/A"
    /\ is_manual' = FALSE
    /\ run_dashboard' = FALSE
    /\ base_score' = 0 /\ fidelity_score' = 0 /\ rating' = "" /\ color' = "" /\ price' = 0
    /\ bound' = {}
    /\ view' = ""

Next ==
    \/ SidebarManual
    \/ SidebarEPD
    \/ MainExecution
    \/ DashboardRender
    \/ IdleState
    \/ Rerun

Spec == Init /\ [][Next]_vars

-----------------------------------------------------------------------------
(* The runs the properties are about *)

\* The script has run to its end and shown the dashboard.
Rendered == pc = "done" /\ view = "dashboard"
ManualRun == Rendered /\ input_mode = "Manual Entry"
EpdRun == Rendered /\ input_mode = "AI EPD Analysis"

\* analyze_epd has returned for the uploaded document.
Analysed ==
    /\ pc \in {"render", "done"}
    /\ input_mode = "AI EPD Analysis"
    /\ uploaded_file.present

\* The phrases of the document, whatever their case: the lower-cased text
\* contains a keyword exactly when the keyword is one of them.
DocWords == {uploaded_file.pages[i].w : i \in 1..Len(uploaded_file.pages)}

RawSum == base_score + score_audit + score_source + score_freq

\* The score Manual Entry computes from the three widgets.
ManualScore(source, audit, freq) ==
    FidelityScore(BaseScore, ManualAudit(audit).score, ManualSource(source).score,
                  ManualFreq(freq))

-----------------------------------------------------------------------------
(* C1 *)

\* C1: whenever a fidelity score has been computed, from manual inputs or from
\* an analysed document, it lies between 0 and 100 inclusive.
C1_ScoreInRange ==
    "fidelity_score" \in bound => 0 <= fidelity_score /\ fidelity_score <= Pts(100)

\* A manual run whose raw sum exceeds 100 and was clamped.
C1_Witness == ManualRun /\ RawSum > Pts(100) /\ fidelity_score = Pts(100)

-----------------------------------------------------------------------------
(* C2 *)

SourceRank(s) ==
    CASE s = "C. Engineering Estimates / Secondary" -> 1
      [] s = "B. Metered / Hybrid Data" -> 2
      [] s = "A. Direct Sensor (IoT) / Remote Sensing" -> 3

AuditRank(a) ==
    CASE a = "L1: Unverified" -> 1
      [] a = "L2: Limited Assurance / Self-Declared" -> 2
      [] a = "L3: Reasonable Assurance (ISO 14064-3)" -> 3

\* C2: the score of a manual run is not above the score of the same inputs with
\* the source upgraded (Estimates -> Metered -> Sensor), nor with the verification
\* upgraded (Unverified -> Limited -> Reasonable), nor with a higher frequency.
C2_Monotonic ==
    ManualRun =>
      /\ \A s \in SourceOptions :
           SourceRank(s) >= SourceRank(source_input)
             => ManualScore(s, audit_input, freq_input) >= fidelity_score
      /\ \A a \in AuditOptions :
           AuditRank(a) >= AuditRank(audit_input)
             => ManualScore(source_input, a, freq_input) >= fidelity_score
      /\ \A f \in FreqValues :
           f >= freq_input
             => ManualScore(source_input, audit_input, f) >= fidelity_score

\* A metered run whose score the sensor upgrade strictly raises.
C2_Witness ==
    /\ ManualRun
    /\ source_input = "B. Metered / Hybrid Data"
    /\ ManualScore("A. Direct Sensor (IoT) / Remote Sensing", audit_input, freq_input)
         > fidelity_score

-----------------------------------------------------------------------------
(* C3 *)

GradeRank(g) ==
    CASE g = "D" -> 1 [] g = "BBB" -> 2 [] g = "A" -> 3 [] g = "AAA" -> 4

Bands ==
    {[rating |-> "AAA", color |-> "#00d4ff", price |-> 1850],
     [rating |-> "A", color |-> "#2ecc71", price |-> 1420],
     [rating |-> "BBB", color |-> "#f1c40f", price |-> 900],
     [rating |-> "D", color |-> "#c0392b", price |-> 250]}

AllScores == 0..Pts(100)

\* C3: every score in [0,100] is rated with one band of the table, and against
\* the rating shown for the run's score, a lower score never has a higher grade
\* or price and a higher score never has a lower grade or price.
C3_RatingTotalMonotonic ==
    Rendered =>
      /\ [rating |-> rating, color |-> color, price |-> price] \in Bands
      /\ \A s \in AllScores :
           /\ Rate(s) \in Bands
           /\ s <= fidelity_score
                => /\ GradeRank(Rate(s).rating) <= GradeRank(rating)
                   /\ Rate(s).price <= price
           /\ s >= fidelity_score
                => /\ GradeRank(Rate(s).rating) >= GradeRank(rating)
                   /\ Rate(s).price >= price

\* A run rated in a middle band, with scores rated strictly lower and higher.
C3_Witness ==
    /\ Rendered
    /\ rating = "A"
    /\ \E lo, hi \in AllScores :
         /\ lo < fidelity_score /\ fidelity_score < hi
         /\ Rate(lo).price < price /\ price < Rate(hi).price

-----------------------------------------------------------------------------
(* C4 *)

SixBand(score) ==
    IF score >= Pts(90) THEN [rating |-> "AAA", price |-> 1850]
    ELSE IF score >= Pts(80) THEN [rating |-> "AA", price |-> 1420]
    ELSE IF score >= Pts(70) THEN [rating |-> "A", price |-> 1100]
    ELSE IF score >= Pts(50) THEN [rating |-> "BBB", price |-> 750]
    ELSE IF score >= Pts(30) THEN [rating |-> "BB", price |-> 400]
    ELSE [rating |-> "D", price |-> 150]

\* C4 as stated: a manual run is rated by the 6-band table (>=90 AAA/18.50,
\* >=80 AA/14.20, >=70 A/11.00, >=50 BBB/7.50, >=30 BB/4.00, else D/1.50).
C4_SixBandManual ==
    ManualRun =>
      /\ rating = SixBand(fidelity_score).rating
      /\ price = SixBand(fidelity_score).price

\* C4 as amended: a manual run is rated by the 4-band table, with exact
\* boundaries: >=80 AAA/18.50, >=60 A/14.20, >=40 BBB/9.00, else D/2.50; so
\* 90 and the score just below 90 are both AAA, 50 is BBB and 29 is D.
C4_FourBandManual ==
    ManualRun =>
      /\ fidelity_score >= Pts(80) => rating = "AAA" /\ price = 1850
      /\ fidelity_score >= Pts(60) /\ fidelity_score < Pts(80)
           => rating = "A" /\ price = 1420
      /\ fidelity_score >= Pts(40) /\ fidelity_score < Pts(60)
           => rating = "BBB" /\ price = 900
      /\ fidelity_score < Pts(40) => rating = "D" /\ price = 250
      /\ fidelity_score = Pts(90) => rating = "AAA" /\ price = 1850
      /\ fidelity_score = Pts(90) - 1 => rating = "AAA"
      /\ fidelity_score = Pts(50) => rating = "BBB"
      /\ fidelity_score = Pts(29) => rating = "D"

\* A manual run that scores just below 90.
C4_Witness == ManualRun /\ fidelity_score = Pts(90) - 1 /\ rating = "AAA"

-----------------------------------------------------------------------------
(* C5 *)

\* C5: a document with no verification keyword and no source keyword (an empty
\* one included) is classified Unverified (-20) and Hybrid / Mixed (+10).
C5_Fallback ==
    (Analysed /\ DocWords \cap (VerifiedWords \cup IsoWords
                                  \cup PrimaryWords \cup SecondaryWords) = {})
      => /\ audit_label = "L1: Unverified / Internal Estimate"
         /\ score_audit = Pts(-20)
         /\ source_label = "B. Hybrid / Mixed Data"
         /\ score_source = Pts(10)

\* An empty document has been analysed.
C5_Witness == Analysed /\ pc = "done" /\ uploaded_file.pages = <<>>

-----------------------------------------------------------------------------
(* C6 *)

\* C6: per dimension the first matching rule wins, whatever the other dimension
\* holds: a third-party keyword gives L3 (+30) even beside an ISO keyword, ISO
\* keywords alone give L2 (+15); a primary keyword gives Direct Facility (+40)
\* even beside a secondary keyword, secondary keywords alone give Industry
\* Average (-10).
C6_FirstMatchWins ==
    Analysed =>
      /\ DocWords \cap VerifiedWords # {}
           => /\ audit_label = "L3: Third-Party Verified (ISO 14025)"
              /\ score_audit = Pts(30)
      /\ DocWords \cap VerifiedWords = {} /\ DocWords \cap IsoWords # {}
           => /\ audit_label = "L2: Self-Declared (ISO Compliant)"
              /\ score_audit = Pts(15)
      /\ DocWords \cap PrimaryWords # {}
           => /\ source_label = "A. Direct Facility Data (Primary)"
              /\ score_source = Pts(40)
      /\ DocWords \cap PrimaryWords = {} /\ DocWords \cap SecondaryWords # {}
           => /\ source_label = "C. Industry Average (Secondary)"
              /\ score_source = Pts(-10)

\* A document with both a third-party and an ISO keyword has been analysed.
C6_Witness ==
    /\ Analysed
    /\ DocWords \cap VerifiedWords # {}
    /\ DocWords \cap IsoWords # {}
    /\ score_audit = Pts(30)

-----------------------------------------------------------------------------
(* C7 *)

\* C7: a document containing "third party verified" and "site-specific" gets
\* +30 and +40, the fixed frequency 5 and base 40; the raw sum 115 is clamped
\* to 100 and the run shows AAA at 18.50.
C7_DocEndToEnd ==
    (/\ pc = "done"
     /\ input_mode = "AI EPD Analysis"
     /\ uploaded_file.present
     /\ "third party verified" \in DocWords
     /\ "site-specific" \in DocWords)
      => /\ view = "dashboard"
         /\ score_audit = Pts(30)
         /\ score_source = Pts(40)
         /\ score_freq = Pts(5)
         /\ base_score = Pts(40)
         /\ RawSum = Pts(115)
         /\ fidelity_score = Pts(100)
         /\ rating = "AAA"
         /\ price = 1850

\* Such a document, one keyword printed in capitals, has been rated.
C7_Witness ==
    /\ EpdRun
    /\ uploaded_file.pages = << [w |-> "third party verified", cap |-> TRUE],
                                [w |-> "site-specific", cap |-> FALSE] >>

-----------------------------------------------------------------------------
(* C8 *)

LowFidelityInputs ==
    /\ ManualRun
    /\ source_input = "C. Engineering Estimates / Secondary"
    /\ audit_input = "L1: Unverified"
    /\ freq_input = 0

\* C8 as stated: Engineering Estimates, Unverified, frequency 0 score
\* 50 - 15 - 20 + 0 = 15 and are rated D at 1.50.
C8_LowFidelityAsStated ==
    LowFidelityInputs
      => /\ base_score = Pts(50)
         /\ score_source = Pts(-15)
         /\ score_audit = Pts(-20)
         /\ score_freq = 0
         /\ fidelity_score = Pts(15)
         /\ rating = "D"
         /\ price = 150

\* C8 as amended: Engineering Estimates, Unverified, frequency 0 score
\* 40 - 10 - 20 + 0 = 10 and are rated D at 2.50.
C8_LowFidelity ==
    LowFidelityInputs
      => /\ base_score = Pts(40)
         /\ score_source = Pts(-10)
         /\ score_audit = Pts(-20)
         /\ score_freq = 0
         /\ RawSum = Pts(10)
         /\ fidelity_score = Pts(10)
         /\ rating = "D"
         /\ price = 250

C8_Witness == LowFidelityInputs /\ fidelity_score = Pts(10)

-----------------------------------------------------------------------------
(* C9 *)

HighFidelityInputs ==
    /\ ManualRun
    /\ source_input = "A. Direct Sensor (IoT) / Remote Sensing"
    /\ audit_input = "L3: Reasonable Assurance (ISO 14064-3)"
    /\ freq_input = SliderMax

\* C9 as stated: Direct Sensor, Reasonable Assurance, frequency 100 give the
\* raw sum 50 + 30 + 15 + 20 = 115, clamped to 100, rated AAA at 18.50.
C9_HighFidelityAsStated ==
    HighFidelityInputs
      => /\ base_score = Pts(50)
         /\ score_source = Pts(30)
         /\ score_audit = Pts(15)
         /\ score_freq = Pts(20)
         /\ RawSum = Pts(115)
         /\ fidelity_score = Pts(100)
         /\ rating = "AAA"
         /\ price = 1850

\* C9 as amended: Direct Sensor, Reasonable Assurance, frequency 100 give the
\* raw sum 40 + 40 + 30 + 20 = 130, clamped to 100, rated AAA at 18.50.
C9_HighFidelity ==
    HighFidelityInputs
      => /\ base_score = Pts(40)
         /\ score_source = Pts(40)
         /\ score_audit = Pts(30)
         /\ score_freq = Pts(20)
         /\ RawSum = Pts(130)
         /\ fidelity_score = Pts(100)
         /\ rating = "AAA"
         /\ price = 1850

C9_Witness == HighFidelityInputs /\ RawSum > fidelity_score

-----------------------------------------------------------------------------
(* C10 *)

Computed == {"base_score", "fidelity_score", "rating", "color", "price"}

\* C10: a run ends with the dashboard exactly when the mode is Manual Entry, or
\* AI EPD Analysis with a file; otherwise it ends idle; a score and rating are
\* bound exactly in the runs that show the dashboard, so never in AI EPD mode
\* without a file; and a dashboard shown in AI EPD mode is computed from
\* analyze_epd's results and the frequency contribution 5.
C10_DashboardIffInputs ==
    /\ pc = "done" =>
         /\ view \in {"dashboard", "idle"}
         /\ view = "dashboard"
              <=> \/ input_mode = "Manual Entry"
                  \/ input_mode = "AI EPD Analysis" /\ uploaded_file.present
         /\ view = "dashboard" <=> Computed \subseteq bound
    /\ view # "dashboard" => Computed \cap bound = {}
    /\ EpdRun =>
         LET r == analyze_epd(uploaded_file)
         IN  /\ score_audit = r.a_scr /\ audit_label = r.a_lbl
             /\ score_source = r.s_scr /\ source_label = r.s_lbl
             /\ project_type = r.p_type
             /\ score_freq = Pts(5)
             /\ "freq_input" \notin bound
             /\ fidelity_score = Min(Max(Pts(40) + r.a_scr + r.s_scr + Pts(5), 0), Pts(100))

\* A run in AI EPD mode with no file has ended idle.
C10_Witness ==
    /\ pc = "done"
    /\ input_mode = "AI EPD Analysis"
    /\ ~uploaded_file.present
    /\ view = "idle"

====
